---- MODULE Spec2Model ----
(***************************************************************************)
(* Nitrogen flow cascade of the pig nutrient circularity tool              *)
(* (src/Cascading_app.py), and the earlier variants of the same tool      *)
(* (src/app.py, src/interactive_app.py, src/dply_interact_app.py).         *)
(*                                                                         *)
(* Magnitudes are Python numbers (ints of the baseline table, floats once  *)
(* a division has happened).  They are modelled as exact rationals         *)
(* <<numerator, denominator>> in lowest terms: every +, -, *, /, min and   *)
(* max of the source is the same operation on rationals.  The rounding of  *)
(* IEEE doubles (a few units in the last place) is not modelled.           *)
(***************************************************************************)
EXTENDS Integers, Sequences, FiniteSets, TLC

(***************************************************************************)
(* Bounds of the model: the percents a request may carry are the multiples *)
(* of 1/PercentDen from -Margin to 100 + Margin.                           *)
(***************************************************************************)
PercentDen == 2
Margin == 5

\* The number of requests the server may have in progress at once.
NumRequests == 2

(***************************************************************************)
(* Rational arithmetic.                                                    *)
(***************************************************************************)
Abs(n) == IF n < 0 THEN 0 - n ELSE n

RECURSIVE GCD(_, _)
GCD(a, b) == IF b = 0 THEN a ELSE GCD(b, a % b)

Norm(n, d) ==
    LET s == IF d < 0 THEN 0 - 1 ELSE 1
        g == GCD(Abs(n), Abs(d))
    IN  <<(s * n) \div g, (s * d) \div g>>

R(n) == <<n, 1>>
Frac(n, d) == Norm(n, d)
RAdd(a, b) == Norm(a[1] * b[2] + b[1] * a[2], a[2] * b[2])
RSub(a, b) == Norm(a[1] * b[2] - b[1] * a[2], a[2] * b[2])
RMul(a, b) == Norm(a[1] * b[1], a[2] * b[2])
RDiv(a, b) == Norm(a[1] * b[2], a[2] * b[1])
RLe(a, b) == a[1] * b[2] <= b[1] * a[2]
RLt(a, b) == a[1] * b[2] < b[1] * a[2]
RMin(a, b) == IF RLe(a, b) THEN a ELSE b
RMax(a, b) == IF RLe(b, a) THEN a ELSE b

(***************************************************************************)
(* 1. Data: compartments and flows.                                        *)
(***************************************************************************)
NODES ==
    << "FEED_PURCHASED", "FEED_HOMEGROWN", "ANIMALS", "FEEDER_PIGS_IMP",
       "FERT_PURCHASED", "MANURE_STORAGE", "SOIL_AVAILABLE", "SOIL_STABLE",
       "CROPS", "PIG_EXPORTS", "GRAIN_EXPORTS", "ENVIRONMENT", "CARCASSES" >>

BASE_FLOWS_N ==
    [ F1  |-> R(4800), F2  |-> R(800),  F3  |-> R(300),  F4  |-> R(0),
      F5  |-> R(2400), F6  |-> R(2400), F7  |-> R(900),  F8  |-> R(1900),
      F9  |-> R(200),  F10 |-> R(300),  F11 |-> R(1300), F12 |-> R(300),
      F13 |-> R(300),  F14 |-> R(0),    F15 |-> R(800),  F16 |-> R(500),
      F17 |-> R(200),  F18 |-> R(50),   F19 |-> R(100),  F20 |-> R(50) ]

FlowKeys == DOMAIN BASE_FLOWS_N

\* LINKS with the endpoints of the F14 row the wrong way round.
LINKS_F14_reversed ==
    << <<"FEED_PURCHASED", "ANIMALS", "F1">>,
       <<"FEED_HOMEGROWN", "ANIMALS", "F2">>,
       <<"FEEDER_PIGS_IMP", "ANIMALS", "F3">>,
       <<"FERT_PURCHASED", "SOIL_AVAILABLE", "F4">>,
       <<"ANIMALS", "PIG_EXPORTS", "F5">>,
       <<"ANIMALS", "MANURE_STORAGE", "F6">>,
       <<"ANIMALS", "ENVIRONMENT", "F7">>,
       <<"MANURE_STORAGE", "SOIL_AVAILABLE", "F8">>,
       <<"MANURE_STORAGE", "SOIL_STABLE", "F9">>,
       <<"MANURE_STORAGE", "ENVIRONMENT", "F10">>,
       <<"SOIL_AVAILABLE", "CROPS", "F11">>,
       <<"SOIL_AVAILABLE", "ENVIRONMENT", "F12">>,
       <<"SOIL_AVAILABLE", "SOIL_STABLE", "F13">>,
       <<"SOIL_AVAILABLE", "SOIL_STABLE", "F14">>,
       <<"CROPS", "FEED_HOMEGROWN", "F15">>,
       <<"CROPS", "GRAIN_EXPORTS", "F16">>,
       <<"ANIMALS", "CARCASSES", "F17">>,
       <<"CARCASSES", "SOIL_AVAILABLE", "F18">>,
       <<"CARCASSES", "PIG_EXPORTS", "F19">>,
       <<"CARCASSES", "ENVIRONMENT", "F20">> >>

LINKS ==
    << <<"FEED_PURCHASED", "ANIMALS", "F1">>,
       <<"FEED_HOMEGROWN", "ANIMALS", "F2">>,
       <<"FEEDER_PIGS_IMP", "ANIMALS", "F3">>,
       <<"FERT_PURCHASED", "SOIL_AVAILABLE", "F4">>,
       <<"ANIMALS", "PIG_EXPORTS", "F5">>,
       <<"ANIMALS", "MANURE_STORAGE", "F6">>,
       <<"ANIMALS", "ENVIRONMENT", "F7">>,
       <<"MANURE_STORAGE", "SOIL_AVAILABLE", "F8">>,
       <<"MANURE_STORAGE", "SOIL_STABLE", "F9">>,
       <<"MANURE_STORAGE", "ENVIRONMENT", "F10">>,
       <<"SOIL_AVAILABLE", "CROPS", "F11">>,
       <<"SOIL_AVAILABLE", "ENVIRONMENT", "F12">>,
       <<"SOIL_AVAILABLE", "SOIL_STABLE", "F13">>,
       <<"SOIL_STABLE", "SOIL_AVAILABLE", "F14">>,
       <<"CROPS", "FEED_HOMEGROWN", "F15">>,
       <<"CROPS", "GRAIN_EXPORTS", "F16">>,
       <<"ANIMALS", "CARCASSES", "F17">>,
       <<"CARCASSES", "SOIL_AVAILABLE", "F18">>,
       <<"CARCASSES", "PIG_EXPORTS", "F19">>,
       <<"CARCASSES", "ENVIRONMENT", "F20">> >>

(***************************************************************************)
(* 1a. Derived partition fractions.                                        *)
(***************************************************************************)
_storage_out_total ==
    RAdd(RAdd(BASE_FLOWS_N["F8"], BASE_FLOWS_N["F9"]), BASE_FLOWS_N["F10"])
P_F8 == RDiv(BASE_FLOWS_N["F8"], _storage_out_total)
\* P_F9 taken from the wrong row of the table.
P_F9_from_F8 == RDiv(BASE_FLOWS_N["F8"], _storage_out_total)

P_F9 == RDiv(BASE_FLOWS_N["F9"], _storage_out_total)
P_F10 == RDiv(BASE_FLOWS_N["F10"], _storage_out_total)

_soil_out_total ==
    RAdd(RAdd(BASE_FLOWS_N["F11"], BASE_FLOWS_N["F12"]), BASE_FLOWS_N["F13"])
P_F11 == RDiv(BASE_FLOWS_N["F11"], _soil_out_total)
P_F12 == RDiv(BASE_FLOWS_N["F12"], _soil_out_total)
P_F13 == RDiv(BASE_FLOWS_N["F13"], _soil_out_total)

_crop_in_baseline == BASE_FLOWS_N["F11"]
P_F15 == RDiv(BASE_FLOWS_N["F15"], _crop_in_baseline)
P_F16 == RDiv(BASE_FLOWS_N["F16"], _crop_in_baseline)

ACCESSIBLE_TARGET == R(50)

(***************************************************************************)
(* 2. Metrics: circular / accessible / lost for N.                         *)
(***************************************************************************)
\* The metrics with the housing loss F7 left out of env_loss.
compute_circularity_metrics_N_no_F7(flows) ==
    LET input_N == RAdd(RAdd(flows["F1"], flows["F3"]), flows["F4"])
        pig_exports == RAdd(flows["F5"], flows["F19"])
        grain_exports == flows["F16"]
        circular_N == RAdd(pig_exports, grain_exports)
        C7_in == RAdd(RAdd(RAdd(flows["F4"], flows["F8"]), flows["F14"]),
                      flows["F18"])
        accessible_N == RMin(ACCESSIBLE_TARGET, C7_in)
        env_loss == RAdd(RAdd(flows["F10"], flows["F12"]), flows["F20"])
        locked_stable == RSub(RAdd(flows["F9"], flows["F13"]), flows["F14"])
        lost_N == RAdd(env_loss, locked_stable)
    IN  [ input_N |-> input_N,
          circular_N |-> circular_N,
          accessible_N |-> accessible_N,
          lost_N |-> lost_N,
          env_loss |-> env_loss,
          locked_stable |-> locked_stable ]

\* The metrics with the net stable soil gain clamped at zero.
compute_circularity_metrics_N_clamped(flows) ==
    LET input_N == RAdd(RAdd(flows["F1"], flows["F3"]), flows["F4"])
        pig_exports == RAdd(flows["F5"], flows["F19"])
        grain_exports == flows["F16"]
        circular_N == RAdd(pig_exports, grain_exports)
        C7_in == RAdd(RAdd(RAdd(flows["F4"], flows["F8"]), flows["F14"]),
                      flows["F18"])
        accessible_N == RMin(ACCESSIBLE_TARGET, C7_in)
        env_loss == RAdd(RAdd(RAdd(flows["F7"], flows["F10"]), flows["F12"]),
                         flows["F20"])
        locked_stable ==
            RMax(RSub(RAdd(flows["F9"], flows["F13"]), flows["F14"]), R(0))
        lost_N == RAdd(env_loss, locked_stable)
    IN  [ input_N |-> input_N,
          circular_N |-> circular_N,
          accessible_N |-> accessible_N,
          lost_N |-> lost_N,
          env_loss |-> env_loss,
          locked_stable |-> locked_stable ]

compute_circularity_metrics_N(flows) ==
    LET input_N == RAdd(RAdd(flows["F1"], flows["F3"]), flows["F4"])
        pig_exports == RAdd(flows["F5"], flows["F19"])
        grain_exports == flows["F16"]
        circular_N == RAdd(pig_exports, grain_exports)
        C7_in == RAdd(RAdd(RAdd(flows["F4"], flows["F8"]), flows["F14"]),
                      flows["F18"])
        accessible_N == RMin(ACCESSIBLE_TARGET, C7_in)
        env_loss == RAdd(RAdd(RAdd(flows["F7"], flows["F10"]), flows["F12"]),
                         flows["F20"])
        locked_stable == RSub(RAdd(flows["F9"], flows["F13"]), flows["F14"])
        lost_N == RAdd(env_loss, locked_stable)
    IN  [ input_N |-> input_N,
          circular_N |-> circular_N,
          accessible_N |-> accessible_N,
          lost_N |-> lost_N,
          env_loss |-> env_loss,
          locked_stable |-> locked_stable ]

(***************************************************************************)
(* 3. The bar chart: the three categories as percents of the N input.      *)
(***************************************************************************)
make_circularity_bar_figure(metrics) ==
    LET input_N == metrics.input_N
        circular == RMul(RDiv(metrics.circular_N, input_N), R(100))
        accessible == RMul(RDiv(metrics.accessible_N, input_N), R(100))
        lost == RMul(RDiv(metrics.lost_N, input_N), R(100))
    IN  <<circular, accessible, lost>>

(***************************************************************************)
(* 5. The callback: the cascading intervention, statement by statement.    *)
(* b is the baseline table the module holds, p the slider value.           *)
(***************************************************************************)
deepcopy(t) == [k \in DOMAIN t |-> t[k]]

\* reduction_factor with // in place of /.
reduction_factor_floordiv(p) == R(p[1] \div (p[2] * 100))

reduction_factor(p) == RDiv(p, R(100))

\* new_F7 scaled by the factor itself, not by its complement.
new_F7_by_factor(b, p) == RMul(b["F7"], reduction_factor(p))

new_F7(b, p) == RMul(b["F7"], RSub(R(1), reduction_factor(p)))

\* delta with its operands swapped.
delta_swapped(b, p) == RSub(new_F7(b, p), b["F7"])

delta(b, p) == RSub(b["F7"], new_F7(b, p))

\* Step 1 with a mistyped key: the assignment adds a key to the dict.
ReduceHousingLoss_typo(b, flows, p) ==
    [flows EXCEPT !["F7"] = new_F7(b, p)]
        @@ ("F66" :> RAdd(b["F6"], delta(b, p)))

\* 1) Reduce housing loss F7 and send saved N to excretion F6
ReduceHousingLoss(b, flows, p) ==
    [flows EXCEPT !["F7"] = new_F7(b, p),
                  !["F6"] = RAdd(b["F6"], delta(b, p))]

\* Step 2 reading the baseline F6 in place of the F6 of step 1.
RepartitionStorage_stale(flows) ==
    [flows EXCEPT !["F8"] = RMul(BASE_FLOWS_N["F6"], P_F8),
                  !["F9"] = RMul(BASE_FLOWS_N["F6"], P_F9),
                  !["F10"] = RMul(BASE_FLOWS_N["F6"], P_F10)]

\* 2) Repartition F6 -> F8, F9, F10 using baseline fractions
RepartitionStorage(flows) ==
    [flows EXCEPT !["F8"] = RMul(flows["F6"], P_F8),
                  !["F9"] = RMul(flows["F6"], P_F9),
                  !["F10"] = RMul(flows["F6"], P_F10)]

\* 3) Soil-available pool (C7) inflow and outflow
C7_in(flows) ==
    RAdd(RAdd(RAdd(flows["F4"], flows["F8"]), flows["F14"]), flows["F18"])

\* The accessible pool without its cap.
accessible_N_uncapped(flows) == C7_in(flows)

accessible_N(flows) == RMin(ACCESSIBLE_TARGET, C7_in(flows))

\* The soil outflow without the accessible pool taken off.
outflow_from_C7_whole(flows) == RMax(C7_in(flows), R(0))

outflow_from_C7(flows) ==
    RMax(RSub(C7_in(flows), accessible_N(flows)), R(0))

RepartitionSoil(flows) ==
    [flows EXCEPT !["F11"] = RMul(outflow_from_C7(flows), P_F11),
                  !["F12"] = RMul(outflow_from_C7(flows), P_F12),
                  !["F13"] = RMul(outflow_from_C7(flows), P_F13)]

\* Step 4 that also feeds the home-grown feed back to the animals.
RepartitionCrops_feed_loop(flows) ==
    [flows EXCEPT !["F15"] = RMul(flows["F11"], P_F15),
                  !["F16"] = RMul(flows["F11"], P_F16),
                  !["F2"] = RMul(flows["F11"], P_F15)]

\* 4) Crops: repartition F11 into F15 (feed) and F16 (export)
RepartitionCrops(flows) ==
    [flows EXCEPT !["F15"] = RMul(flows["F11"], P_F15),
                  !["F16"] = RMul(flows["F11"], P_F16)]

\* The table update_scenario hands to the figures, with the locals it used.
Cascade(b, p) ==
    LET f0 == deepcopy(b)
        f1 == ReduceHousingLoss(b, f0, p)
        f2 == RepartitionStorage(f1)
        f3 == RepartitionSoil(f2)
        f4 == RepartitionCrops(f3)
    IN  [ flows |-> f4,
          delta |-> delta(b, p),
          C7_in |-> C7_in(f2),
          accessible_N |-> accessible_N(f2),
          outflow_from_C7 |-> outflow_from_C7(f2),
          metrics |-> compute_circularity_metrics_N(f4) ]

(***************************************************************************)
(* State.                                                                  *)
(*   base     the module-level table BASE_FLOWS_N as it stands             *)
(*   percent  the value of the housing-reduction slider                    *)
(*   flows    the table drawn in the Sankey graph                          *)
(*   metrics  the metrics drawn in the bar chart and the list              *)
(*   locals   delta, C7_in, accessible_N, outflow_from_C7 of the last call *)
(*   origin   "layout" while the page shows the figures of the layout,     *)
(*            "callback" once update_scenario has produced them            *)
(*   raised   the exception the last call ended with, "none" if it         *)
(*            returned                                                     *)
(*   fractions  the module-level partition fractions P_F8 .. P_F16         *)
(*   frames   the calls of update_scenario in progress, one per request    *)
(***************************************************************************)
VARIABLES base, percent, flows, metrics, locals, origin, raised, fractions,
          frames

vars ==
    <<base, percent, flows, metrics, locals, origin, raised, fractions,
      frames>>

Requests == 1 .. NumRequests

PartitionFractions ==
    [ P_F8 |-> P_F8, P_F9 |-> P_F9, P_F10 |-> P_F10,
      P_F11 |-> P_F11, P_F12 |-> P_F12, P_F13 |-> P_F13,
      P_F15 |-> P_F15, P_F16 |-> P_F16 ]

Percents ==
    { Frac(k, PercentDen) :
        k \in ((0 - Margin) * PercentDen) .. ((100 + Margin) * PercentDen) }

baseline_metrics == compute_circularity_metrics_N(BASE_FLOWS_N)

NoLocals ==
    [ delta |-> R(0), C7_in |-> R(0), accessible_N |-> R(0),
      outflow_from_C7 |-> R(0) ]

\* A request slot with no call of update_scenario in progress.
IdleFrame ==
    [ pc |-> "idle", percent |-> R(0), obj |-> "none", flows |-> BASE_FLOWS_N,
      locals |-> NoLocals, metrics |-> baseline_metrics ]

Init ==
    /\ base = BASE_FLOWS_N
    /\ percent = R(5)
    /\ flows = BASE_FLOWS_N
    /\ metrics = baseline_metrics
    /\ locals = NoLocals
    /\ origin = "layout"
    /\ raised = "none"
    /\ fractions = PartitionFractions
    /\ frames = [r \in Requests |-> IdleFrame]

update_scenario(housing_reduction_percent) ==
    \E r \in {Cascade(base, housing_reduction_percent)} :
        /\ percent' = housing_reduction_percent
        /\ flows' = r.flows
        /\ metrics' = r.metrics
        /\ locals' = [ delta |-> r.delta, C7_in |-> r.C7_in,
                       accessible_N |-> r.accessible_N,
                       outflow_from_C7 |-> r.outflow_from_C7 ]
        /\ origin' = "callback"
        /\ raised' = "none"
        /\ UNCHANGED <<base, fractions, frames>>

Next == \E p \in Percents : update_scenario(p)

Spec == Init /\ [][Next]_vars

(***************************************************************************)
(* The callback statement by statement, with several requests in progress  *)
(* at once (the server handles each request on its own thread).  A frame   *)
(* holds the locals of one call; frames[r].obj says which dict the local   *)
(* name flows is bound to: the request's own copy, kept in                 *)
(* frames[r].flows, or the module-level dict itself, kept in base.         *)
(***************************************************************************)
StepPercents == {R(0), R(5), R(50), R(100)}

\* flows = BASE_FLOWS_N: the local name bound to the module-level dict.
flows_binding_alias == "BASE_FLOWS_N"

\* flows = copy.deepcopy(BASE_FLOWS_N): the local name bound to a new dict.
flows_binding == "copy"

\* The dict the local name flows of request r refers to.
Table(r) ==
    IF frames[r].obj = "BASE_FLOWS_N" THEN base ELSE frames[r].flows

\* Assignments into flows[...] by request r leave the dict as t and the
\* frame as f.
Store(r, t, f) ==
    IF frames[r].obj = "BASE_FLOWS_N"
    THEN /\ base' = t
         /\ frames' = [frames EXCEPT ![r] = f]
    ELSE /\ base' = base
         /\ frames' = [frames EXCEPT ![r] = [f EXCEPT !.flows = t]]

Begin(r, p) ==
    /\ frames[r].pc = "idle"
    /\ frames' = [frames EXCEPT ![r] =
                      [ pc |-> "step1", percent |-> p, obj |-> flows_binding,
                        flows |-> deepcopy(base), locals |-> NoLocals,
                        metrics |-> baseline_metrics ]]
    /\ UNCHANGED <<base, percent, flows, metrics, locals, origin, raised,
                   fractions>>

Step1(r) ==
    /\ frames[r].pc = "step1"
    /\ Store(r, ReduceHousingLoss(base, Table(r), frames[r].percent),
             [frames[r] EXCEPT !.pc = "step2",
                               !.locals.delta = delta(base, frames[r].percent)])
    /\ UNCHANGED <<percent, flows, metrics, locals, origin, raised, fractions>>

Step2(r) ==
    /\ frames[r].pc = "step2"
    /\ Store(r, RepartitionStorage(Table(r)),
             [frames[r] EXCEPT !.pc = "step3"])
    /\ UNCHANGED <<percent, flows, metrics, locals, origin, raised, fractions>>

Step3(r) ==
    /\ frames[r].pc = "step3"
    /\ Store(r, RepartitionSoil(Table(r)),
             [frames[r] EXCEPT
                  !.pc = "step4",
                  !.locals.C7_in = C7_in(Table(r)),
                  !.locals.accessible_N = accessible_N(Table(r)),
                  !.locals.outflow_from_C7 = outflow_from_C7(Table(r))])
    /\ UNCHANGED <<percent, flows, metrics, locals, origin, raised, fractions>>

Step4(r) ==
    /\ frames[r].pc = "step4"
    /\ Store(r, RepartitionCrops(Table(r)),
             [frames[r] EXCEPT !.pc = "metrics"])
    /\ UNCHANGED <<percent, flows, metrics, locals, origin, raised, fractions>>

Metrics(r) ==
    /\ frames[r].pc = "metrics"
    /\ frames' = [frames EXCEPT
                      ![r].pc = "return",
                      ![r].metrics = compute_circularity_metrics_N(Table(r))]
    /\ UNCHANGED <<base, percent, flows, metrics, locals, origin, raised,
                   fractions>>

\* return sankey_fig, bar_fig, metrics_children: the page shows the result.
Return(r) ==
    /\ frames[r].pc = "return"
    /\ percent' = frames[r].percent
    /\ flows' = Table(r)
    /\ metrics' = frames[r].metrics
    /\ locals' = frames[r].locals
    /\ origin' = "callback"
    /\ raised' = "none"
    /\ frames' = [frames EXCEPT ![r] = IdleFrame]
    /\ UNCHANGED <<base, fractions>>

NextSteps ==
    \E r \in Requests :
        \/ \E p \in StepPercents : Begin(r, p)
        \/ Step1(r)
        \/ Step2(r)
        \/ Step3(r)
        \/ Step4(r)
        \/ Metrics(r)
        \/ Return(r)

SpecSteps == Init /\ [][NextSteps]_vars

(***************************************************************************)
(* Start-up: the module-level statements that derive the partition         *)
(* fractions, run on import, for baseline tables other than the shipped    *)
(* one (the shipped table with some of F8 .. F16 set to 0).  A true        *)
(* division by zero raises ZeroDivisionError and the import stops there.   *)
(***************************************************************************)
Zeroable == {"F8", "F9", "F10", "F11", "F12", "F13", "F15", "F16"}

Baselines ==
    { [k \in FlowKeys |-> IF k \in Z THEN R(0) ELSE BASE_FLOWS_N[k]] :
        Z \in SUBSET Zeroable }

NoFractions ==
    [ P_F8 |-> R(0), P_F9 |-> R(0), P_F10 |-> R(0),
      P_F11 |-> R(0), P_F12 |-> R(0), P_F13 |-> R(0),
      P_F15 |-> R(0), P_F16 |-> R(0) ]

storage_out_total(b) == RAdd(RAdd(b["F8"], b["F9"]), b["F10"])

soil_out_total(b) == RAdd(RAdd(b["F11"], b["F12"]), b["F13"])

crop_in_baseline(b) == b["F11"]

\* Some divisor of lines 87-100 is zero.
DerivationRaises(b) ==
    \/ storage_out_total(b) = R(0)
    \/ soil_out_total(b) = R(0)
    \/ crop_in_baseline(b) = R(0)

\* The crop fractions taken of the crop outflow total.
DerivedFractions_crop_out(b) ==
    [ P_F8 |-> RDiv(b["F8"], storage_out_total(b)),
      P_F9 |-> RDiv(b["F9"], storage_out_total(b)),
      P_F10 |-> RDiv(b["F10"], storage_out_total(b)),
      P_F11 |-> RDiv(b["F11"], soil_out_total(b)),
      P_F12 |-> RDiv(b["F12"], soil_out_total(b)),
      P_F13 |-> RDiv(b["F13"], soil_out_total(b)),
      P_F15 |-> IF RAdd(b["F15"], b["F16"]) = R(0) THEN R(0)
                ELSE RDiv(b["F15"], RAdd(b["F15"], b["F16"])),
      P_F16 |-> IF RAdd(b["F15"], b["F16"]) = R(0) THEN R(1)
                ELSE RDiv(b["F16"], RAdd(b["F15"], b["F16"])) ]

DerivedFractions(b) ==
    [ P_F8 |-> RDiv(b["F8"], storage_out_total(b)),
      P_F9 |-> RDiv(b["F9"], storage_out_total(b)),
      P_F10 |-> RDiv(b["F10"], storage_out_total(b)),
      P_F11 |-> RDiv(b["F11"], soil_out_total(b)),
      P_F12 |-> RDiv(b["F12"], soil_out_total(b)),
      P_F13 |-> RDiv(b["F13"], soil_out_total(b)),
      P_F15 |-> RDiv(b["F15"], crop_in_baseline(b)),
      P_F16 |-> RDiv(b["F16"], crop_in_baseline(b)) ]

InitDerive ==
    /\ base \in Baselines
    /\ percent = R(5)
    /\ flows = base
    /\ metrics = baseline_metrics
    /\ locals = NoLocals
    /\ origin = "import"
    /\ raised = "none"
    /\ fractions = NoFractions
    /\ frames = [r \in Requests |-> IdleFrame]

\* Lines 86-100, then the layout of lines 217-285.
import_module ==
    /\ origin = "import"
    /\ IF DerivationRaises(base)
       THEN /\ raised' = "ZeroDivisionError"
            /\ origin' = "import_failed"
            /\ UNCHANGED <<fractions, metrics>>
       ELSE /\ raised' = "none"
            /\ origin' = "layout"
            /\ fractions' = DerivedFractions(base)
            /\ metrics' = compute_circularity_metrics_N(base)
    /\ UNCHANGED <<base, percent, flows, locals, frames>>

NextDerive == import_module

SpecDerive == InitDerive /\ [][NextDerive]_vars

(***************************************************************************)
(* The metrics function on its own: a caller hands it a table and calls it *)
(* once, then once more on the same table.  The tables are the baseline    *)
(* with up to two magnitudes replaced, and the baseline with one key       *)
(* deleted.                                                                *)
(***************************************************************************)
MetricValues == {R(0), R(1000)}

FullTables ==
    { [k \in FlowKeys |-> IF k = a THEN va ELSE IF k = b THEN vb
                                            ELSE BASE_FLOWS_N[k]] :
        a \in FlowKeys, b \in {"F9", "F13", "F14", "F8"},
        va \in MetricValues, vb \in MetricValues }

PartialTables ==
    { [k \in FlowKeys \ {m} |-> BASE_FLOWS_N[k]] : m \in FlowKeys }

GivenTables == FullTables \cup PartialTables

\* The keys compute_circularity_metrics_N subscripts the table with.
MetricKeys ==
    {"F1", "F3", "F4", "F5", "F19", "F16", "F8", "F14", "F18", "F7", "F10",
     "F12", "F20", "F9", "F13"}

InitMetrics ==
    /\ base = BASE_FLOWS_N
    /\ percent = R(5)
    /\ flows \in GivenTables
    /\ metrics = baseline_metrics
    /\ locals = NoLocals
    /\ origin = "given"
    /\ raised = "none"
    /\ fractions = PartitionFractions
    /\ frames = [r \in Requests |-> IdleFrame]

\* The call with F16 read by pop: the caller's dict loses the key.
call_metrics_pop ==
    /\ origin \in {"given", "called_once"}
    /\ origin' = IF origin = "given" THEN "called_once" ELSE "called_twice"
    /\ IF MetricKeys \subseteq DOMAIN flows
       THEN /\ metrics' = compute_circularity_metrics_N(flows)
            /\ raised' = "none"
            /\ flows' = [k \in DOMAIN flows \ {"F16"} |-> flows[k]]
       ELSE /\ metrics' = metrics
            /\ raised' = "KeyError"
            /\ flows' = flows
    /\ UNCHANGED <<base, percent, locals, fractions, frames>>

\* metrics = compute_circularity_metrics_N(flows); a subscript with a key
\* the dict lacks raises KeyError and nothing is returned.
call_metrics ==
    /\ origin \in {"given", "called_once"}
    /\ origin' = IF origin = "given" THEN "called_once" ELSE "called_twice"
    /\ IF MetricKeys \subseteq DOMAIN flows
       THEN /\ metrics' = compute_circularity_metrics_N(flows)
            /\ raised' = "none"
       ELSE /\ metrics' = metrics
            /\ raised' = "KeyError"
    /\ UNCHANGED <<base, percent, flows, locals, fractions, frames>>

NextMetrics == call_metrics

SpecMetrics == InitMetrics /\ [][NextMetrics]_vars

(***************************************************************************)
(* The earlier variants of the tool: app.py (static page, no callback),    *)
(* interactive_app.py and dply_interact_app.py (slider, housing loss only, *)
(* no cascade).  All four files carry the same baseline table; a process   *)
(* serves one of them, and origin names the file and whether the page      *)
(* shows its layout or the result of its update_scenario.                  *)
(***************************************************************************)
Variants == {"app", "interactive_app", "dply_interact_app", "Cascading_app"}

\* compute_circularity_metrics_N of app.py, interactive_app.py and
\* dply_interact_app.py: accessible_N and locked_stable are literals.
toy_compute_circularity_metrics_N(t) ==
    LET input_N == RAdd(RAdd(t["F1"], t["F3"]), t["F4"])
        pig_exports == RAdd(t["F5"], t["F19"])
        grain_exports == t["F16"]
        circular_N == RAdd(pig_exports, grain_exports)
        accessible == R(50)
        env_loss == RAdd(RAdd(RAdd(t["F7"], t["F10"]), t["F12"]), t["F20"])
        locked_stable == R(500)
        lost_N == RAdd(env_loss, locked_stable)
    IN  [ input_N |-> input_N,
          circular_N |-> circular_N,
          accessible_N |-> accessible,
          lost_N |-> lost_N,
          env_loss |-> env_loss,
          locked_stable |-> locked_stable ]

\* The metrics each file computes for a table.
VariantMetrics(v, t) ==
    IF v = "Cascading_app" THEN compute_circularity_metrics_N(t)
    ELSE toy_compute_circularity_metrics_N(t)

\* update_scenario of interactive_app.py, up to the metrics.
interactive_update_scenario(b, p) ==
    LET copied == deepcopy(b)
        factor == RDiv(p, R(100))
        baseline_F7 == b["F7"]
        baseline_F6 == b["F6"]
        nF7 == RMul(baseline_F7, RSub(R(1), factor))
        d == RSub(baseline_F7, nF7)
        f1 == [copied EXCEPT !["F7"] = nF7]
        f2 == [f1 EXCEPT !["F6"] = RAdd(baseline_F6, d)]
    IN  [ flows |-> f2, delta |-> d,
          metrics |-> toy_compute_circularity_metrics_N(f2) ]

\* update_scenario of dply_interact_app.py with saved taken from F7 after
\* F7 has been scaled.
dply_update_scenario_saved_late(b, p) ==
    LET copied == deepcopy(b)
        reduction == RDiv(p, R(100))
        f1 == [copied EXCEPT !["F7"] = RMul(@, RSub(R(1), reduction))]
        saved == RMul(f1["F7"], reduction)
        f2 == [f1 EXCEPT !["F6"] = RAdd(@, saved)]
    IN  [ flows |-> f2, delta |-> saved,
          metrics |-> toy_compute_circularity_metrics_N(f2) ]

\* update_scenario of dply_interact_app.py, up to the metrics: saved is
\* computed from the copy's F7 before F7 *= (1 - reduction).
dply_update_scenario(b, p) ==
    LET copied == deepcopy(b)
        reduction == RDiv(p, R(100))
        saved == RMul(copied["F7"], reduction)
        f1 == [copied EXCEPT !["F7"] = RMul(@, RSub(R(1), reduction))]
        f2 == [f1 EXCEPT !["F6"] = RAdd(@, saved)]
    IN  [ flows |-> f2, delta |-> saved,
          metrics |-> toy_compute_circularity_metrics_N(f2) ]

\* A process has imported one of the four files: its page shows the
\* baseline table and the baseline metrics that file computes.
InitVariants ==
    /\ base = BASE_FLOWS_N
    /\ percent = R(5)
    /\ flows = BASE_FLOWS_N
    /\ origin \in Variants
    /\ metrics = VariantMetrics(origin, BASE_FLOWS_N)
    /\ locals = NoLocals
    /\ raised = "none"
    /\ fractions = PartitionFractions
    /\ frames = [r \in Requests |-> IdleFrame]

interactive_app_update_scenario(housing_reduction_percent) ==
    /\ origin \in {"interactive_app", "interactive_app.update_scenario"}
    /\ \E r \in {interactive_update_scenario(base, housing_reduction_percent)} :
           /\ percent' = housing_reduction_percent
           /\ flows' = r.flows
           /\ metrics' = r.metrics
           /\ locals' = [NoLocals EXCEPT !.delta = r.delta]
    /\ origin' = "interactive_app.update_scenario"
    /\ UNCHANGED <<base, raised, fractions, frames>>

dply_interact_app_update_scenario(housing_reduction_percent) ==
    /\ origin \in {"dply_interact_app", "dply_interact_app.update_scenario"}
    /\ \E r \in {dply_update_scenario(base, housing_reduction_percent)} :
           /\ percent' = housing_reduction_percent
           /\ flows' = r.flows
           /\ metrics' = r.metrics
           /\ locals' = [NoLocals EXCEPT !.delta = r.delta]
    /\ origin' = "dply_interact_app.update_scenario"
    /\ UNCHANGED <<base, raised, fractions, frames>>

Cascading_app_update_scenario(housing_reduction_percent) ==
    /\ origin \in {"Cascading_app", "Cascading_app.update_scenario"}
    /\ \E r \in {Cascade(base, housing_reduction_percent)} :
           /\ percent' = housing_reduction_percent
           /\ flows' = r.flows
           /\ metrics' = r.metrics
           /\ locals' = [ delta |-> r.delta, C7_in |-> r.C7_in,
                          accessible_N |-> r.accessible_N,
                          outflow_from_C7 |-> r.outflow_from_C7 ]
    /\ origin' = "Cascading_app.update_scenario"
    /\ UNCHANGED <<base, raised, fractions, frames>>

NextVariants ==
    \E p \in Percents :
        \/ interactive_app_update_scenario(p)
        \/ dply_interact_app_update_scenario(p)
        \/ Cascading_app_update_scenario(p)

SpecVariants == InitVariants /\ [][NextVariants]_vars

(***************************************************************************)
(* Vocabulary of the properties.                                           *)
(***************************************************************************)
InDomain(p) == RLe(R(0), p) /\ RLe(p, R(100))

Cascaded == origin = "callback" /\ InDomain(percent)

RECURSIVE SumLinks(_, _, _, _)
SumLinks(f, node, end, i) ==
    IF i > Len(LINKS) THEN R(0)
    ELSE RAdd(IF LINKS[i][end] = node THEN f[LINKS[i][3]] ELSE R(0),
              SumLinks(f, node, end, i + 1))

Outflow(f, node) == SumLinks(f, node, 1, 1)
Inflow(f, node) == SumLinks(f, node, 2, 1)

Through == {"FEED_HOMEGROWN", "ANIMALS", "MANURE_STORAGE", "CROPS", "CARCASSES"}

Unrecomputed == {"F1", "F2", "F3", "F4", "F5", "F14", "F17", "F18", "F19", "F20"}

(***************************************************************************)
(* C1: for every percent in [0,100] the cascaded table has                 *)
(* F7 + F6 = 900 + 2400 = 3300, and what left F7 is what entered F6.       *)
(***************************************************************************)
C1_AnimalConservation ==
    Cascaded =>
        /\ RAdd(flows["F7"], flows["F6"]) = R(3300)
        /\ RAdd(flows["F7"], flows["F6"]) = RAdd(base["F7"], base["F6"])
        /\ RSub(base["F7"], flows["F7"]) = RSub(flows["F6"], base["F6"])

C1_Witness == Cascaded /\ RLt(flows["F7"], base["F7"])

(***************************************************************************)
(* C2: for every percent in [0,100] the cascaded table balances inflow and *)
(* outflow at FEED_HOMEGROWN, ANIMALS, MANURE_STORAGE, CROPS and           *)
(* CARCASSES, and at SOIL_AVAILABLE the inflow is the outflow plus the     *)
(* parked amount min(50, inflow).                                          *)
(***************************************************************************)
C2_MassBalanceEverywhere ==
    Cascaded =>
        /\ \A n \in Through : Inflow(flows, n) = Outflow(flows, n)
        /\ Inflow(flows, "SOIL_AVAILABLE") =
               RAdd(Outflow(flows, "SOIL_AVAILABLE"),
                    RMin(R(50), Inflow(flows, "SOIL_AVAILABLE")))

(***************************************************************************)
(* C3: for every percent in [0,100] the cascaded flows keep the baseline   *)
(* proportions F8:F9:F10 = 1900:200:300, F11:F12:F13 = 1300:300:300 and    *)
(* F15:F16 = 800:500, by cross-multiplication.                             *)
(***************************************************************************)
SameRatio(f, x, y) == RMul(f[x], BASE_FLOWS_N[y]) = RMul(f[y], BASE_FLOWS_N[x])

C3_PartitionFidelity ==
    Cascaded =>
        /\ RMul(flows["F8"], R(200)) = RMul(flows["F9"], R(1900))
        /\ SameRatio(flows, "F8", "F9")
        /\ SameRatio(flows, "F9", "F10")
        /\ SameRatio(flows, "F8", "F10")
        /\ SameRatio(flows, "F11", "F12")
        /\ SameRatio(flows, "F12", "F13")
        /\ SameRatio(flows, "F11", "F13")
        /\ SameRatio(flows, "F15", "F16")

C3_Witness == Cascaded /\ RLt(base["F8"], flows["F8"])

(***************************************************************************)
(* C4: for every percent in [0,100] the metrics of the cascaded table have *)
(* accessible_N <= 50 and accessible_N = min(50, F4 + F8 + F14 + F18) of   *)
(* that table, the amount the cascade used in its capped-pool step.        *)
(***************************************************************************)
C4_AccessibleCap ==
    Cascaded =>
        /\ RLe(metrics.accessible_N, R(50))
        /\ metrics.accessible_N = RMin(R(50), Inflow(flows, "SOIL_AVAILABLE"))
        /\ metrics.accessible_N = locals.accessible_N

C4_Witness ==
    Cascaded /\ RLt(R(50), locals.C7_in) /\ metrics.accessible_N = R(50)

(***************************************************************************)
(* C5: for every percent in [0,100], F7 = 900 * (1 - percent/100),         *)
(* delta = 900 * percent/100 and F6 = 2400 + delta; percent 5 gives        *)
(* 45, 855, 2445; percent 50 gives 450, 450, 2850; percent 100 gives       *)
(* F7 = 0 and delta = 900.                                                 *)
(***************************************************************************)
C5_HousingFormula ==
    Cascaded =>
        /\ flows["F7"] = RDiv(RMul(R(900), RSub(R(100), percent)), R(100))
        /\ locals.delta = RDiv(RMul(R(900), percent), R(100))
        /\ flows["F6"] = RAdd(R(2400), locals.delta)
        /\ percent = R(5) =>
               /\ locals.delta = R(45)
               /\ flows["F7"] = R(855)
               /\ flows["F6"] = R(2445)
        /\ percent = R(50) =>
               /\ locals.delta = R(450)
               /\ flows["F7"] = R(450)
               /\ flows["F6"] = R(2850)
        /\ percent = R(100) =>
               /\ locals.delta = base["F7"]
               /\ flows["F7"] = R(0)

C5_Witness == Cascaded /\ percent = R(100) /\ locals.delta = R(900)

(***************************************************************************)
(* C6: with percent = 0 the cascaded table is the baseline, flow by flow,  *)
(* and its metrics have input_N = 5100 and circular_N = 3000.              *)
(***************************************************************************)
C6_ZeroIsIdentity ==
    (origin = "callback" /\ percent = R(0)) =>
        /\ \A k \in FlowKeys : flows[k] = BASE_FLOWS_N[k]
        /\ flows = BASE_FLOWS_N
        /\ metrics.input_N = R(5100)
        /\ metrics.circular_N = R(3000)

C6_Witness == origin = "callback" /\ percent = R(0) /\ locals.delta = R(0)

(***************************************************************************)
(* C7: a call with a larger percent than the call before it, both in       *)
(* [0,100], returns a smaller F7 and a larger F6, with F1, F3 and F4 as    *)
(* they were.                                                              *)
(***************************************************************************)
C7_Monotone ==
    [][ (Cascaded /\ InDomain(percent') /\ RLt(percent, percent')) =>
            /\ RLt(flows'["F7"], flows["F7"])
            /\ RLt(flows["F6"], flows'["F6"])
            /\ flows'["F1"] = flows["F1"]
            /\ flows'["F3"] = flows["F3"]
            /\ flows'["F4"] = flows["F4"] ]_vars

C7_Witness ==
    Cascaded /\ RLt(R(0), percent) /\ RLt(percent, R(100))
             /\ RLt(flows["F7"], base["F7"]) /\ RLt(base["F6"], flows["F6"])

(***************************************************************************)
(* C8: for every percent in [0,100] the cascaded table has exactly the 20  *)
(* keys of the baseline and no negative magnitude.                         *)
(***************************************************************************)
C8_KeysAndSigns ==
    Cascaded =>
        /\ DOMAIN flows = DOMAIN BASE_FLOWS_N
        /\ Cardinality(DOMAIN flows) = 20
        /\ \A k \in DOMAIN flows : RLe(R(0), flows[k])

C8_Witness == Cascaded /\ percent = R(100) /\ flows["F7"] = R(0)

(***************************************************************************)
(* C9: for every percent in [0,100] the flows the cascade does not         *)
(* recompute (F1, F2, F3, F4, F5, F14, F17, F18, F19, F20) keep their      *)
(* baseline values; only F6..F13, F15 and F16 may differ.                  *)
(***************************************************************************)
C9_Frame ==
    Cascaded =>
        /\ \A k \in Unrecomputed : flows[k] = BASE_FLOWS_N[k]
        /\ \A k \in FlowKeys :
               flows[k] # BASE_FLOWS_N[k] =>
                   k \in {"F6", "F7", "F8", "F9", "F10", "F11", "F12", "F13",
                          "F15", "F16"}

C9_Witness ==
    Cascaded /\ flows["F15"] # BASE_FLOWS_N["F15"]
             /\ flows["F2"] = BASE_FLOWS_N["F2"]

(***************************************************************************)
(* C10: a call with percent outside [0,100] signals InvalidParameter and   *)
(* returns no table, so no table with a negative magnitude is ever shown.  *)
(***************************************************************************)
C10_InvalidParameter ==
    /\ (origin = "callback" /\ ~InDomain(percent)) =>
           raised = "InvalidParameter"
    /\ \A k \in DOMAIN flows : RLe(R(0), flows[k])

(***************************************************************************)
(* C11: for every table with the 20 keys the metrics are                   *)
(* input_N = F1 + F3 + F4, circular_N = F5 + F19 + F16, env_loss = the sum *)
(* of the flows whose LINKS destination is ENVIRONMENT (F7, F10, F12,      *)
(* F20), locked_stable = F9 + F13 - F14 with no clamp at zero,             *)
(* lost_N = env_loss + locked_stable, and accessible_N is min(50, the sum  *)
(* of the flows whose LINKS destination is SOIL_AVAILABLE).                *)
(***************************************************************************)
LinkKeysInto(node) ==
    { LINKS[i][3] : i \in { j \in 1 .. Len(LINKS) : LINKS[j][2] = node } }

Called == origin \in {"called_once", "called_twice"}

C11_MetricFormulas ==
    (Called /\ DOMAIN flows = FlowKeys) =>
        /\ raised = "none"
        /\ metrics.input_N = RAdd(RAdd(flows["F1"], flows["F3"]), flows["F4"])
        /\ metrics.circular_N =
               RAdd(RAdd(flows["F5"], flows["F19"]), flows["F16"])
        /\ LinkKeysInto("ENVIRONMENT") = {"F7", "F10", "F12", "F20"}
        /\ metrics.env_loss = Inflow(flows, "ENVIRONMENT")
        /\ metrics.locked_stable =
               RSub(RAdd(flows["F9"], flows["F13"]), flows["F14"])
        /\ metrics.lost_N = RAdd(metrics.env_loss, metrics.locked_stable)
        /\ metrics.accessible_N =
               RMin(R(50), Inflow(flows, "SOIL_AVAILABLE"))

C11_Witness ==
    /\ Called
    /\ DOMAIN flows = FlowKeys
    /\ RLt(metrics.locked_stable, R(0))
    /\ metrics.lost_N = RAdd(metrics.env_loss, metrics.locked_stable)

(***************************************************************************)
(* C12: for every percent in [0,100] the three categories account for the  *)
(* whole external input: circular_N + accessible_N + lost_N = input_N, so  *)
(* the three bars of the chart add up to 100 percent.                      *)
(***************************************************************************)
C12_CategoriesCoverInput ==
    Cascaded =>
        /\ RAdd(RAdd(metrics.circular_N, metrics.accessible_N),
                metrics.lost_N) = metrics.input_N
        /\ LET values == make_circularity_bar_figure(metrics)
           IN  RAdd(RAdd(values[1], values[2]), values[3]) = R(100)

\* What the categories do add up to: the input less the N that stays in
\* FEED_HOMEGROWN.
C12_CategoriesMissFeedGap ==
    Cascaded =>
        RAdd(RAdd(metrics.circular_N, metrics.accessible_N), metrics.lost_N)
            = RSub(metrics.input_N, RSub(flows["F15"], flows["F2"]))

(***************************************************************************)
(* C13: under any interleaving of requests with percents in [0,100] the    *)
(* baseline table and the partition fractions are never modified, each     *)
(* request works on its own copy, and the table and metrics a request      *)
(* returns are those of a call with its percent run alone from the         *)
(* baseline.                                                               *)
(***************************************************************************)
C13_RequestsIndependent ==
    /\ base = BASE_FLOWS_N
    /\ fractions = PartitionFractions
    /\ \A r \in Requests :
           frames[r].pc # "idle" => frames[r].obj = "copy"
    /\ \A r \in Requests :
           frames[r].pc = "return" =>
               /\ Table(r) = Cascade(BASE_FLOWS_N, frames[r].percent).flows
               /\ frames[r].metrics =
                      Cascade(BASE_FLOWS_N, frames[r].percent).metrics
    /\ origin = "callback" =>
           /\ flows = Cascade(BASE_FLOWS_N, percent).flows
           /\ metrics = Cascade(BASE_FLOWS_N, percent).metrics

\* Two calls in progress with different percents, one past step 1 and the
\* other about to return.
C13_Witness ==
    \E r1, r2 \in Requests :
        /\ r1 # r2
        /\ frames[r1].pc = "return"
        /\ frames[r2].pc \in {"step2", "step3", "step4"}
        /\ frames[r1].percent # frames[r2].percent
        /\ origin = "callback"
        /\ percent # frames[r1].percent

(***************************************************************************)
(* C14: compute_circularity_metrics_N signals a missing-key error whenever *)
(* the table lacks any one of the 20 keys F1 .. F20, also a key no formula *)
(* reads (F2, F6, F11, F15, F17), and no error when all 20 are there.      *)
(***************************************************************************)
C14_MissingFlowKey ==
    Called => (raised # "none" <=> DOMAIN flows # FlowKeys)

(***************************************************************************)
(* C15: for a baseline in which a partition base is 0 (F8 + F9 + F10 = 0,  *)
(* F11 + F12 + F13 = 0 or F11 = 0) the derivation of the fractions ends in *)
(* a DegenerateBaseline error at startup instead of dividing by zero.      *)
(***************************************************************************)
Degenerate(b) ==
    \/ RAdd(RAdd(b["F8"], b["F9"]), b["F10"]) = R(0)
    \/ RAdd(RAdd(b["F11"], b["F12"]), b["F13"]) = R(0)
    \/ b["F11"] = R(0)

C15_DegenerateBaselineGuard ==
    (origin # "import" /\ Degenerate(base)) =>
        /\ raised = "DegenerateBaseline"
        /\ origin = "import_failed"

(***************************************************************************)
(* C16: each derived set of fractions adds up to 1: P_F8 + P_F9 + P_F10,   *)
(* P_F11 + P_F12 + P_F13 and P_F15 + P_F16; the crop fractions are taken   *)
(* of F11, so the crop set adds up to 1 exactly when the baseline has      *)
(* F15 + F16 = F11.                                                        *)
(***************************************************************************)
C16_FractionsSumToOne ==
    /\ RAdd(RAdd(P_F8, P_F9), P_F10) = R(1)
    /\ RAdd(RAdd(P_F11, P_F12), P_F13) = R(1)
    /\ RAdd(P_F15, P_F16) = R(1)
    /\ DerivedFractions(BASE_FLOWS_N) = PartitionFractions
    /\ origin = "layout" =>
           /\ RAdd(RAdd(fractions.P_F8, fractions.P_F9), fractions.P_F10)
                  = R(1)
           /\ RAdd(RAdd(fractions.P_F11, fractions.P_F12), fractions.P_F13)
                  = R(1)
           /\ fractions.P_F15 = RDiv(base["F15"], base["F11"])
           /\ fractions.P_F16 = RDiv(base["F16"], base["F11"])
           /\ RAdd(fractions.P_F15, fractions.P_F16) = R(1)
                  <=> RAdd(base["F15"], base["F16"]) = base["F11"]

\* A baseline whose crops give out less than they take up: the crop set
\* does not add up to 1.
C16_Witness ==
    /\ origin = "layout"
    /\ base["F15"] = R(0)
    /\ RAdd(fractions.P_F15, fractions.P_F16) = Frac(5, 13)
    /\ RAdd(RAdd(fractions.P_F8, fractions.P_F9), fractions.P_F10) = R(1)

(***************************************************************************)
(* C17: LINKS is a directed graph of 13 compartments and 20 flows, every   *)
(* endpoint in NODES, the link keys those of the flow table, no            *)
(* self-loop, whose only directed cycle is SOIL_AVAILABLE -> SOIL_STABLE   *)
(* -> SOIL_AVAILABLE (F13, F14): no other compartment reaches itself.      *)
(***************************************************************************)
NodeSet == { NODES[i] : i \in 1 .. Len(NODES) }

LinkRows(skip) ==
    { i \in 1 .. Len(LINKS) : LINKS[i][3] \notin skip }

Successors(S, skip) ==
    { LINKS[i][2] : i \in { j \in LinkRows(skip) : LINKS[j][1] \in S } }

RECURSIVE Closure(_, _)
Closure(S, skip) ==
    LET T == S \cup Successors(S, skip)
    IN  IF T = S THEN S ELSE Closure(T, skip)

\* The compartments reached from n along one link or more, the links with
\* a key in skip left out.
ReachableFrom(n, skip) == Closure(Successors({n}, skip), skip)

OnCycle(skip) == { n \in NodeSet : n \in ReachableFrom(n, skip) }

WellFormedLinks ==
    /\ Len(NODES) = 13
    /\ Cardinality(NodeSet) = 13
    /\ Len(LINKS) = 20
    /\ \A i \in 1 .. Len(LINKS) :
           /\ LINKS[i][1] \in NodeSet
           /\ LINKS[i][2] \in NodeSet
           /\ LINKS[i][1] # LINKS[i][2]
    /\ \A i, j \in 1 .. Len(LINKS) : LINKS[i][3] = LINKS[j][3] => i = j
    /\ { LINKS[i][3] : i \in 1 .. Len(LINKS) } = DOMAIN BASE_FLOWS_N
    /\ { LINKS[i][3] : i \in 1 .. Len(LINKS) } = DOMAIN flows

SoilCycle ==
    /\ "SOIL_STABLE" \in Successors({"SOIL_AVAILABLE"}, {})
    /\ "SOIL_AVAILABLE" \in Successors({"SOIL_STABLE"}, {})

PcOrder == <<"idle", "step1", "step2", "step3", "step4", "metrics", "return">>

PcIndex(pc) == CHOOSE i \in 1 .. Len(PcOrder) : PcOrder[i] = pc

Past(r, pc) == PcIndex(frames[r].pc) > PcIndex(pc)

\* The soil inflow F4 + F8 + F14 + F18 of table t less min(50, inflow).
Remainder(t) ==
    LET inflow == RAdd(RAdd(RAdd(t["F4"], t["F8"]), t["F14"]), t["F18"])
    IN  RMax(RSub(inflow, RMin(R(50), inflow)), R(0))

StepsReadFinalValues(r) ==
    LET t == Table(r)
        p == frames[r].percent
    IN  /\ Past(r, "step1") =>
               /\ t["F7"] = RMul(R(900), RSub(R(1), RDiv(p, R(100))))
               /\ t["F6"] = RAdd(R(2400), RSub(R(900), t["F7"]))
        /\ frames[r].pc = "step2" =>
               \A k \in {"F8", "F9", "F10"} : t[k] = BASE_FLOWS_N[k]
        /\ Past(r, "step2") =>
               /\ t["F8"] = RMul(t["F6"], Frac(1900, 2400))
               /\ t["F9"] = RMul(t["F6"], Frac(200, 2400))
               /\ t["F10"] = RMul(t["F6"], Frac(300, 2400))
               /\ RAdd(RAdd(t["F8"], t["F9"]), t["F10"]) = t["F6"]
               /\ p = R(5) =>
                      /\ t["F6"] = R(2445)
                      /\ t["F8"] = RDiv(RMul(R(2445), R(1900)), R(2400))
                      /\ t["F9"] = RDiv(RMul(R(2445), R(200)), R(2400))
                      /\ t["F10"] = RDiv(RMul(R(2445), R(300)), R(2400))
        /\ frames[r].pc = "step3" =>
               \A k \in {"F11", "F12", "F13"} : t[k] = BASE_FLOWS_N[k]
        /\ Past(r, "step3") =>
               \E rem \in {Remainder(t)} :
                   /\ frames[r].locals.C7_in = Inflow(t, "SOIL_AVAILABLE")
                   /\ frames[r].locals.outflow_from_C7 = rem
                   /\ t["F11"] = RMul(rem, Frac(1300, 1900))
                   /\ t["F12"] = RMul(rem, Frac(300, 1900))
                   /\ t["F13"] = RMul(rem, Frac(300, 1900))
                   /\ RAdd(RAdd(t["F11"], t["F12"]), t["F13"]) = rem
        /\ frames[r].pc = "step4" =>
               \A k \in {"F15", "F16"} : t[k] = BASE_FLOWS_N[k]
        /\ Past(r, "step4") =>
               /\ t["F15"] = RMul(t["F11"], Frac(800, 1300))
               /\ t["F16"] = RMul(t["F11"], Frac(500, 1300))
               /\ RAdd(t["F15"], t["F16"]) = t["F11"]

StepsInOrder(r) ==
    frames'[r].pc # frames[r].pc =>
        \/ PcIndex(frames'[r].pc) = PcIndex(frames[r].pc) + 1
        \/ frames[r].pc = "return" /\ frames'[r].pc = "idle"

C19_StepOrder ==
    /\ [](\A r \in Requests : StepsReadFinalValues(r))
    /\ [][\A r \in Requests : StepsInOrder(r)]_vars

C19_Witness ==
    \E r \in Requests :
        /\ frames[r].pc = "return"
        /\ frames[r].percent = R(5)
        /\ Table(r)["F8"] = Frac(15485, 8)
        /\ Table(r)["F15"] = R(815)

(***************************************************************************)
(* C20: a call with a percent at least that of the call before it, both in *)
(* [0,100], returns metrics with circular_N no smaller and env_loss and    *)
(* lost_N no larger; input_N stays 5100 and locked_stable stays >= 0.      *)
(***************************************************************************)
C20_MetricsMonotone ==
    /\ [](Cascaded =>
              /\ metrics.input_N = R(5100)
              /\ RLe(R(0), metrics.locked_stable))
    /\ [][ (Cascaded /\ InDomain(percent') /\ RLe(percent, percent')) =>
               /\ RLe(metrics.circular_N, metrics'.circular_N)
               /\ RLe(metrics'.env_loss, metrics.env_loss)
               /\ RLe(metrics'.lost_N, metrics.lost_N) ]_vars

C20_Witness ==
    /\ Cascaded
    /\ RLt(R(0), percent)
    /\ RLt(percent, R(100))
    /\ RLt(baseline_metrics.circular_N, metrics.circular_N)
    /\ RLt(metrics.env_loss, baseline_metrics.env_loss)
    /\ RLt(metrics.lost_N, baseline_metrics.lost_N)

(***************************************************************************)
(* C21: the variants agree where they overlap.  For a percent in [0,100]   *)
(* the table an update_scenario returns has the F7 and the F6 that the     *)
(* update_scenario of interactive_app, of dply_interact_app and of         *)
(* Cascading_app each compute for that percent; and on the baseline table  *)
(* the cascading metrics derive accessible_N = 50 and locked_stable = 500, *)
(* the literals of the other variants, so that the baseline metrics a page *)
(* shows are the ones every one of the four files computes.                *)
(***************************************************************************)
UpdateOrigins ==
    {"interactive_app.update_scenario", "dply_interact_app.update_scenario",
     "Cascading_app.update_scenario"}

SameF7F6(t, u) == t["F7"] = u["F7"] /\ t["F6"] = u["F6"]

C21_VariantsAgree ==
    /\ (origin \in UpdateOrigins /\ InDomain(percent)) =>
           /\ SameF7F6(flows, interactive_update_scenario(base, percent).flows)
           /\ SameF7F6(flows, dply_update_scenario(base, percent).flows)
           /\ SameF7F6(flows, Cascade(base, percent).flows)
    /\ origin \in Variants =>
           /\ flows = base
           /\ compute_circularity_metrics_N(flows).accessible_N = R(50)
           /\ compute_circularity_metrics_N(flows).locked_stable = R(500)
           /\ \A v \in Variants : metrics = VariantMetrics(v, flows)

\* dply_interact_app has answered a request for a reduction in (0,100]: F7
\* and F6 moved, its locked_stable is the literal 500 while the cascading
\* variant derives another value for the same percent.
C21_Witness ==
    /\ origin = "dply_interact_app.update_scenario"
    /\ RLt(R(0), percent)
    /\ InDomain(percent)
    /\ RLt(flows["F7"], base["F7"])
    /\ RLt(base["F6"], flows["F6"])
    /\ metrics.locked_stable = R(500)
    /\ Cascade(base, percent).metrics.locked_stable # R(500)

====
